---------------------------- MODULE Spec2Model ----------------------------
(***************************************************************************)
(* A model of the FSM-driven interactor: FSMInteractor (pick,              *)
(* dispatchRawEvent), FSM (actOnEvent), EventSpec (bindRegion, match) and  *)
(* Action (bindRegion, execute).                                           *)
(*                                                                         *)
(* A Region object is referred to by [gen, idx, name]: gen is the identity *)
(* of the FSM object that owns it, idx its place in that FSM's region      *)
(* list, name its (immutable) name.  "undefined" is written as a value of  *)
(* the same shape with zeros.                                              *)
(***************************************************************************)
EXTENDS Integers, Sequences, FiniteSets, TLC

VARIABLES
    fsm,                \* FSMInteractor._fsm: NoFSM or the FSM object (regions, bound states)
    currentState,       \* FSM._currentState: index of a state, 0 = undefined
    imageLoc,           \* Region.imageLoc of each region of the installed FSM
    lastPickedRegions,  \* FSMInteractor.lastPickedRegions
    lastCall,           \* record of the last call: its inputs and what it delivered
    parent,             \* FSMInteractor._parent: NoRoot or a Root object
    pending,            \* the calls of startLoadFromJson suspended at an await, in call order
    started,            \* the number of calls of startLoadFromJson made so far
    position,           \* FSMInteractor._x, _y
    entered             \* history: the regions an enter was delivered for and no exit since,
                        \* and whether enter and exit have alternated for every region so far

vars ==
    <<fsm, currentState, imageLoc, lastPickedRegions, lastCall, parent, pending, started,
      position, entered>>

\* What only the setters and the load path assign
hostVars == <<parent, pending, started, position>>

\* ------------------------------------------------------------------ bounds

\* Raw samples are drawn from the grid 0..MaxX by 0..MaxY.
MaxX == 3
MaxY == 1

\* At most MaxLoads calls of startLoadFromJson are made in a run.
MaxLoads == 2

\* ------------------------------------------------------------ plain values

NoFSM == [gen |-> 0]
NoRoot == 0
NoRegion == [gen |-> 0, idx |-> 0, name |-> ""]

RawKinds == {"press", "move", "release"}

evtTypeStrings ==
    <<"press", "release", "release_none", "enter", "exit", "move_inside", "any", "nevermatch">>

actionTypeStrings == <<"set_image", "clear_image", "none", "print", "print_event">>

Range(s) == {s[i] : i \in 1..Len(s)}

Includes(s, e) == \E i \in 1..Len(s) : s[i] = e

Reverse(s) == [i \in 1..Len(s) |-> s[Len(s) + 1 - i]]

\* ------------------------------------------------- FSM descriptions (data)

Rg(n, x, y, w, h, img) == [name |-> n, x |-> x, y |-> y, w |-> w, h |-> h, imageLoc |-> img]
Ev(t, r) == [evtType |-> t, region |-> r]
Ac(a, r, p) == [act |-> a, region |-> r, param |-> p]
Tr(e, as, t) == [onEvent |-> e, actions |-> as, target |-> t]
St(n, ts) == [name |-> n, transitions |-> ts]

\* A and B share the point (1, 0) on A's right edge; B and C share the point (2, 1);
\* A and C are disjoint; (0, 1) and (3, 0) are covered by no region.
RegionsRow ==
    << Rg("A", 0, 0, 1, 0, "up"), Rg("B", 1, 0, 1, 1, ""), Rg("C", 2, 1, 1, 0, "") >>

\* B lies inside A, and the one-point region C inside both; x = 0 is outside all.
RegionsNested ==
    << Rg("A", 1, 0, 2, 1, ""), Rg("B", 2, 0, 1, 1, ""), Rg("C", 2, 1, 0, 0, "") >>

DescButton ==
    [ regions |-> RegionsRow,
      states |-> <<
        St("start", <<
            Tr(Ev("enter", "A"), <<Ac("set_image", "A", "hi"), Ac("print", "", "in")>>, "over"),
            Tr(Ev("press", "B"), <<Ac("set_image", "B", "dn")>>, "down"),
            Tr(Ev("any", "*"), <<Ac("print_event", "", "ev:")>>, "start") >>),
        St("over", <<
            Tr(Ev("exit", "A"), <<Ac("set_image", "A", "up")>>, "start"),
            Tr(Ev("press", "A"), <<Ac("set_image", "A", "dn"), Ac("set_image", "A", "hi")>>, "down"),
            Tr(Ev("enter", "*"), <<Ac("none", "", "")>>, "over") >>),
        St("down", <<
            Tr(Ev("release", "*"), <<Ac("clear_image", "B", ""), Ac("set_image", "A", "up")>>, "start"),
            Tr(Ev("release_none", ""), <<Ac("clear_image", "B", "")>>, "start"),
            Tr(Ev("exit", "B"), <<Ac("clear_image", "B", ""), Ac("set_image", "B", "dn")>>, "over") >>) >> ]

DescPriority ==
    [ regions |-> RegionsRow,
      states |-> <<
        St("s1", <<
            Tr(Ev("nevermatch", "A"), <<Ac("set_image", "A", "dn")>>, "s2"),
            Tr(Ev("move_inside", "A"), <<Ac("set_image", "A", "hi")>>, "s2"),
            Tr(Ev("any", "A"), <<Ac("clear_image", "A", "")>>, "s1"),
            Tr(Ev("release_none", ""), <<Ac("clear_image", "C", "")>>, "s2"),
            Tr(Ev("move_inside", "*"), <<Ac("set_image", "C", "hi")>>, "s3") >>),
        St("s2", <<
            Tr(Ev("any", ""), <<Ac("set_image", "A", "up")>>, "s1"),
            Tr(Ev("release", "*"), <<Ac("print_event", "C", "rel:")>>, "s2"),
            Tr(Ev("exit", "A"), <<Ac("set_image", "A", "up")>>, "s1"),
            Tr(Ev("press", "C"), <<>>, "s3") >>),
        St("s3", <<>>) >> ]

DescNested ==
    [ regions |-> RegionsNested,
      states |-> <<
        St("out", <<
            Tr(Ev("enter", "C"), <<Ac("set_image", "C", "hi")>>, "in"),
            Tr(Ev("enter", "B"), <<Ac("set_image", "B", "hi")>>, "in"),
            Tr(Ev("press", "*"), <<Ac("set_image", "A", "hi")>>, "out") >>),
        St("in", <<
            Tr(Ev("move_inside", "B"), <<Ac("clear_image", "C", ""), Ac("set_image", "A", "hi")>>, "in"),
            Tr(Ev("exit", "*"), <<Ac("clear_image", "B", ""), Ac("clear_image", "A", "")>>, "out"),
            Tr(Ev("release", "A"), <<Ac("clear_image", "A", "")>>, "out") >>) >> ]

Descs == <<DescButton, DescPriority, DescNested>>

\* Descriptions FSM.fromJson complains about: a region and a state declared twice,
DescDuplicates ==
    [ regions |-> << Rg("A", 0, 0, 1, 0, "up"), Rg("A", 2, 1, 1, 0, "dn"), Rg("C", 2, 1, 1, 0, "") >>,
      states |-> <<
        St("s", << Tr(Ev("enter", "A"), <<Ac("set_image", "A", "hi")>>, "t") >>),
        St("s", << Tr(Ev("enter", "C"), <<Ac("set_image", "C", "hi")>>, "s") >>),
        St("t", << Tr(Ev("exit", "A"), <<Ac("clear_image", "A", "")>>, "s") >>) >> ]

\* an empty state list,
DescNoStates == [ regions |-> RegionsRow, states |-> <<>> ]

\* no region list and no state list (fsm.regions and fsm.states are undefined),
DescNoLists == [ name |-> "fsm" ]

\* and names that nothing declares: the region of an event specification, the
\* region of an action, and the target of a transition
DescUnresolved ==
    [ regions |-> RegionsRow,
      states |-> <<
        St("s", <<
            Tr(Ev("press", "Z"), <<Ac("set_image", "A", "dn")>>, "s"),
            Tr(Ev("enter", "C"), <<Ac("set_image", "Z", "hi"), Ac("set_image", "C", "hi")>>, "s"),
            Tr(Ev("enter", "A"), <<Ac("set_image", "A", "hi")>>, "nowhere") >>) >> ]

BuildDescs == <<DescButton, DescDuplicates, DescNoStates, DescNoLists, DescUnresolved, DescNested>>

\* ---------------------------------------------------- FSM construction

\* The Region objects made from the description's region records, for FSM object gen
RegionRefs(json, gen) ==
    [i \in 1..Len(json.regions) |-> [gen |-> gen, idx |-> i, name |-> json.regions[i].name]]

\* The first region of regionList whose name is n, as the loops of bindRegion find
\* it; NoRegion if there is none
FirstNamed(regionList, n) ==
    LET hits == {i \in 1..Len(regionList) : regionList[i].name = n}
    IN  IF hits = {} THEN NoRegion
        ELSE regionList[CHOOSE i \in hits : \A j \in hits : i <= j]

\* EventSpec.bindRegion: the value of EventSpec._region afterwards
EventSpec_bindRegion(regionList, regionName) ==
    IF regionName = "*" THEN NoRegion ELSE FirstNamed(regionList, regionName)

\* Action.bindRegion: the value of Action._onRegion afterwards
Action_bindRegion(regionList, onRegionName) == FirstNamed(regionList, onRegionName)

\* Transition.bindTarget: the index of the state named by the transition, 0 if none
bindTarget(stateList, targetName) ==
    LET hits == {i \in 1..Len(stateList) : stateList[i].name = targetName}
    IN  IF hits = {} THEN 0 ELSE CHOOSE i \in hits : \A j \in hits : i <= j

\* Whether regionList holds a region named n
Named(regionList, n) == \E i \in 1..Len(regionList) : regionList[i].name = n

\* bindRegion leaving every nevermatch spec without a region
EventSpec_afterBind_unlessNevermatch(e, regionList) ==
    IF e.regionName = "*" \/ e.evtType = "nevermatch" THEN [e EXCEPT !.region = NoRegion]
    ELSE IF Named(regionList, e.regionName)
    THEN [e EXCEPT !.region = FirstNamed(regionList, e.regionName)]
    ELSE e

\* The EventSpec object e after e.bindRegion(regionList): _region is assigned for
\* the wildcard and when a region has the name, and by no other path
EventSpec_afterBind(e, regionList) ==
    IF e.regionName = "*" THEN [e EXCEPT !.region = NoRegion]
    ELSE IF Named(regionList, e.regionName)
    THEN [e EXCEPT !.region = FirstNamed(regionList, e.regionName)]
    ELSE e

\* The number of calls of Err.emit that e.bindRegion(regionList) makes
EventSpec_bindEmits(e, regionList) ==
    IF e.regionName = "*" \/ Named(regionList, e.regionName) THEN 0
    ELSE IF e.evtType = "nevermatch" THEN 0
    ELSE IF e.evtType \in {"release_none", "any"} /\ e.regionName = "" THEN 0
    ELSE 1

\* The types of action that need no region
RegionFree == {"none", "print", "print_event"}

\* bindRegion leaving every action of a region-free type without a region
Action_afterBind_unlessRegionFree(a, regionList) ==
    IF a.actType \in RegionFree THEN [a EXCEPT !.onRegion = NoRegion]
    ELSE IF Named(regionList, a.onRegionName)
    THEN [a EXCEPT !.onRegion = FirstNamed(regionList, a.onRegionName)]
    ELSE a

\* The Action object a after a.bindRegion(regionList)
Action_afterBind(a, regionList) ==
    IF Named(regionList, a.onRegionName)
    THEN [a EXCEPT !.onRegion = FirstNamed(regionList, a.onRegionName)]
    ELSE IF a.actType \in RegionFree THEN [a EXCEPT !.onRegion = NoRegion]
    ELSE a

\* The number of calls of Err.emit that a.bindRegion(regionList) makes
Action_bindEmits(a, regionList) ==
    IF Named(regionList, a.onRegionName) \/ a.actType \in RegionFree THEN 0 ELSE 1

\* An EventSpec object after bindRegion
BoundEventSpec(regionList, e) ==
    [evtType |-> e.evtType, regionName |-> e.region,
     region |-> EventSpec_bindRegion(regionList, e.region)]

\* An Action object after bindRegion
BoundAction(regionList, a) ==
    [actType |-> a.act, onRegionName |-> a.region, param |-> a.param,
     onRegion |-> Action_bindRegion(regionList, a.region)]

\* A Transition object after the binding pass of FSM._finalize
BoundTransition(regionList, stateList, t) ==
    [onEvent |-> BoundEventSpec(regionList, t.onEvent),
     actions |-> [k \in 1..Len(t.actions) |-> BoundAction(regionList, t.actions[k])],
     targetName |-> t.target,
     target |-> bindTarget(stateList, t.target)]

\* FSM._finalize: every transition of every state bound
finalize(regionList, stateList) ==
    [s \in 1..Len(stateList) |->
        [name |-> stateList[s].name,
         transitions |->
            [i \in 1..Len(stateList[s].transitions) |->
                BoundTransition(regionList, stateList, stateList[s].transitions[i])]]]

\* An FSM object whose constructor skipped _finalize: no name is bound
FSM_unbound(json, gen) ==
    [gen |-> gen,
     regions |-> RegionRefs(json, gen),
     box |-> [i \in 1..Len(json.regions) |->
                [x |-> json.regions[i].x, y |-> json.regions[i].y,
                 w |-> json.regions[i].w, h |-> json.regions[i].h]],
     states |->
        [k \in 1..Len(json.states) |->
            [name |-> json.states[k].name,
             transitions |->
                [i \in 1..Len(json.states[k].transitions) |->
                    BoundTransition(<<>>, <<>>, json.states[k].transitions[i])]]]]

\* new FSM(regions, states): the FSM object gen built from a description; box
\* holds the bounding box of each region
FSM_new(json, gen) ==
    [gen |-> gen,
     regions |-> RegionRefs(json, gen),
     box |-> [i \in 1..Len(json.regions) |->
                [x |-> json.regions[i].x, y |-> json.regions[i].y,
                 w |-> json.regions[i].w, h |-> json.regions[i].h]],
     states |-> finalize(RegionRefs(json, gen), json.states)]

\* FSM._startState = states[0]
startState(f) == IF Len(f.states) > 0 THEN 1 ELSE 0

\* The image each region is constructed with
InitialImages(json) == [i \in 1..Len(json.regions) |-> json.regions[i].imageLoc]

\* ------------------------------------------------------- EventSpec.match

\* new EventSpec(evtTyp, regionName): not bound to a region yet
EventSpec_new(evtTyp, regionName) ==
    [evtType |-> evtTyp, regionName |-> regionName, region |-> NoRegion]

\* match without the wildcard clause of the region test
match_noWildcard(e, evtType, regn) ==
    LET event_match == (e.evtType = evtType)
        reg_match == (e.region = regn)
    IN  IF e.evtType = "" THEN FALSE
        ELSE IF e.evtType = "nevermatch" THEN FALSE
        ELSE IF e.evtType = "any" THEN reg_match
        ELSE IF e.evtType = "release_none" THEN event_match
        ELSE event_match /\ reg_match

\* match without the nevermatch branch
match_nevermatchCompared(e, evtType, regn) ==
    LET event_match == (e.evtType = evtType)
        reg_match == (e.region = regn) \/ (e.regionName = "*" /\ e.region = NoRegion)
    IN  IF e.evtType = "" THEN FALSE
        ELSE IF e.evtType = "any" THEN reg_match
        ELSE IF e.evtType = "release_none" THEN event_match
        ELSE event_match /\ reg_match

\* match whose any branch accepts every region
match_anyEverywhere(e, evtType, regn) ==
    LET event_match == (e.evtType = evtType)
        reg_match == (e.region = regn) \/ (e.regionName = "*" /\ e.region = NoRegion)
    IN  IF e.evtType = "" THEN FALSE
        ELSE IF e.evtType = "nevermatch" THEN FALSE
        ELSE IF e.evtType = "any" THEN TRUE
        ELSE IF e.evtType = "release_none" THEN event_match
        ELSE event_match /\ reg_match

\* match without the release_none branch
match_releaseNoneByRegion(e, evtType, regn) ==
    LET event_match == (e.evtType = evtType)
        reg_match == (e.region = regn) \/ (e.regionName = "*" /\ e.region = NoRegion)
    IN  IF e.evtType = "" THEN FALSE
        ELSE IF e.evtType = "nevermatch" THEN FALSE
        ELSE IF e.evtType = "any" THEN reg_match
        ELSE event_match /\ reg_match

match(e, evtType, regn) ==
    LET event_match == (e.evtType = evtType)
        reg_match == (e.region = regn) \/ (e.regionName = "*" /\ e.region = NoRegion)
    IN  IF e.evtType = "" THEN FALSE
        ELSE IF e.evtType = "nevermatch" THEN FALSE
        ELSE IF e.evtType = "any" THEN reg_match
        ELSE IF e.evtType = "release_none" THEN event_match
        ELSE event_match /\ reg_match

\* Transition.match hands the event to the transition's EventSpec
Transition_match(t, evtType, regn) == match(t.onEvent, evtType, regn)

\* -------------------------------------------------------- Action.execute

\* The text printed for the event by print_event
event_dump(evtType, evtReg) ==
    IF evtReg # NoRegion
    THEN evtType \o "(" \o evtReg.name \o ")"
    ELSE evtType \o "(" \o "undefined" \o ")"

\* execute with clear_image writing the action's param, as set_image does
execute_clearAsSet(a, evtType, evtReg, img, out) ==
    IF a.actType \in {"set_image", "clear_image"}
    THEN IF a.onRegion # NoRegion
         THEN [img |-> [img EXCEPT ![a.onRegion.idx] = a.param], out |-> out]
         ELSE [img |-> img, out |-> out]
    ELSE IF a.actType = "print"
        THEN [img |-> img, out |-> Append(out, a.param)]
    ELSE IF a.actType = "print_event"
        THEN [img |-> img, out |-> Append(out, a.param \o event_dump(evtType, evtReg))]
    ELSE [img |-> img, out |-> out]

\* execute on the region images img, with console output out: the two afterwards
execute(a, evtType, evtReg, img, out) ==
    IF a.actType = "none" THEN [img |-> img, out |-> out]
    ELSE IF a.actType = "set_image"
        THEN IF a.onRegion # NoRegion
             THEN [img |-> [img EXCEPT ![a.onRegion.idx] = a.param], out |-> out]
             ELSE [img |-> img, out |-> out]
    ELSE IF a.actType = "clear_image"
        THEN IF a.onRegion # NoRegion
             THEN [img |-> [img EXCEPT ![a.onRegion.idx] = ""], out |-> out]
             ELSE [img |-> img, out |-> out]
    ELSE IF a.actType = "print"
        THEN [img |-> img, out |-> Append(out, a.param)]
    ELSE IF a.actType = "print_event"
        THEN [img |-> img, out |-> Append(out, a.param \o event_dump(evtType, evtReg))]
    ELSE [img |-> img, out |-> out]

\* The trace r after action k of transition ti has run and left e
Executed(r, ti, k, e) ==
    [r EXCEPT !.img = e.img, !.out = e.out, !.executed = Append(r.executed, <<ti, k>>)]

\* trans.actions.forEach(action => action.execute(evtType, reg)), from action k on;
\* r carries the images, the console output and the list of executed actions
RECURSIVE executeAll(_, _, _, _, _, _)
executeAll(ti, t, k, evtType, reg, r) ==
    IF k > Len(t.actions) THEN r
    ELSE executeAll(ti, t, k + 1, evtType, reg,
             Executed(r, ti, k, execute(t.actions[k], evtType, reg, r.img, r.out)))

\* ------------------------------------------------------- FSM.actOnEvent

\* What one call leaves behind, beyond the FSM's fields (cur, img): the transitions
\* whose match was evaluated, the actions executed (<<transition, action>>), the
\* console output, the transition taken (0 if none) and the number of assignments
\* to _currentState.
NoTrace(cur, img) ==
    [cur |-> cur, img |-> img, evaluated |-> <<>>, executed |-> <<>>, out |-> <<>>,
     fired |-> 0, assigns |-> 0]

Evaluated(r, i) == [r EXCEPT !.evaluated = Append(r.evaluated, i)]

\* this._currentState = trans.target; return
Taken(r, i, t) == [r EXCEPT !.cur = t.target, !.fired = i, !.assigns = r.assigns + 1]

\* Mutant: the loop runs from the last transition to the first
RECURSIVE scanTransitions_fromEnd(_, _, _, _, _)
scanTransitions_fromEnd(ts, i, evtType, reg, r) ==
    IF i > Len(ts) THEN r
    ELSE IF Transition_match(ts[Len(ts) + 1 - i], evtType, reg)
         THEN Taken(executeAll(Len(ts) + 1 - i, ts[Len(ts) + 1 - i], 1, evtType, reg,
                               Evaluated(r, Len(ts) + 1 - i)),
                    Len(ts) + 1 - i, ts[Len(ts) + 1 - i])
         ELSE scanTransitions_fromEnd(ts, i + 1, evtType, reg, Evaluated(r, Len(ts) + 1 - i))

\* Mutant: the loop goes on after a transition was taken (the return is missing)
RECURSIVE scanTransitions_noReturn(_, _, _, _, _)
scanTransitions_noReturn(ts, i, evtType, reg, r) ==
    IF i > Len(ts) THEN r
    ELSE IF Transition_match(ts[i], evtType, reg)
         THEN scanTransitions_noReturn(ts, i + 1, evtType, reg,
                  Taken(executeAll(i, ts[i], 1, evtType, reg, Evaluated(r, i)), i, ts[i]))
         ELSE scanTransitions_noReturn(ts, i + 1, evtType, reg, Evaluated(r, i))

\* The for loop over this._currentState.transitions, from transition i on
RECURSIVE scanTransitions(_, _, _, _, _)
scanTransitions(ts, i, evtType, reg, r) ==
    IF i > Len(ts) THEN r
    ELSE IF Transition_match(ts[i], evtType, reg)
         THEN Taken(executeAll(i, ts[i], 1, evtType, reg, Evaluated(r, i)), i, ts[i])
         ELSE scanTransitions(ts, i + 1, evtType, reg, Evaluated(r, i))

\* Mutant: an event that matches no transition sends the FSM back to its first state
actOnEvent_resetOnMiss(f, cur, img, evtType, reg) ==
    IF cur = 0 THEN NoTrace(cur, img)
    ELSE LET r == scanTransitions(f.states[cur].transitions, 1, evtType, reg, NoTrace(cur, img))
         IN  IF r.fired = 0 THEN [r EXCEPT !.cur = 1, !.assigns = 1] ELSE r

actOnEvent(f, cur, img, evtType, reg) ==
    IF cur = 0 THEN NoTrace(cur, img)
    ELSE scanTransitions(f.states[cur].transitions, 1, evtType, reg, NoTrace(cur, img))

\* ----------------------------------------------------- FSMInteractor.pick

\* The containment test with the far edges left out
Contains_farEdgesOpen(box, localX, localY) ==
    /\ localX >= box.x /\ localX < box.x + box.w
    /\ localY >= box.y /\ localY < box.y + box.h

Contains(box, localX, localY) ==
    /\ localX >= box.x /\ localX <= box.x + box.w
    /\ localY >= box.y /\ localY <= box.y + box.h

\* pick without the final reverse
pick_declarationOrder(f, localX, localY) ==
    IF f = NoFSM THEN <<>>
    ELSE SelectSeq(f.regions, LAMBDA reg : Contains(f.box[reg.idx], localX, localY))

pick(f, localX, localY) ==
    IF f = NoFSM THEN <<>>
    ELSE Reverse(SelectSeq(f.regions, LAMBDA reg : Contains(f.box[reg.idx], localX, localY)))

\* ----------------------------------------- FSMInteractor.dispatchRawEvent

\* Mutant: every region of the current pick counts as entered
enter_region_unfiltered(currentlist, prevlist) == currentlist

\* currentlist.filter(r => !prevlist.includes(r))
enter_region(currentlist, prevlist) ==
    SelectSeq(currentlist, LAMBDA r : ~Includes(prevlist, r))

\* Mutant: the two lists taken the wrong way round
exit_region_swapped(currentlist, prevlist) ==
    SelectSeq(currentlist, LAMBDA r : ~Includes(prevlist, r))

\* prevlist.filter(r => !currentlist.includes(r))
exit_region(currentlist, prevlist) ==
    SelectSeq(prevlist, LAMBDA r : ~Includes(currentlist, r))

\* The switch in the loop over currentlist
kindEvent(what) ==
    CASE what = "move" -> "move_inside"
      [] what = "press" -> "press"
      [] what = "release" -> "release"

Event(evtType, region) == [evtType |-> evtType, region |-> region]

EventsOf(evtType, regionList) ==
    [i \in 1..Len(regionList) |-> Event(evtType, regionList[i])]

\* Mutant: the enter events are delivered before the exit events
dispatchedEvents_enterFirst(what, currentlist, prevlist) ==
    EventsOf("enter", SelectSeq(currentlist, LAMBDA r : ~Includes(prevlist, r)))
    \o EventsOf("exit", SelectSeq(prevlist, LAMBDA r : ~Includes(currentlist, r)))
    \o EventsOf(kindEvent(what), currentlist)
    \o (IF what = "release" /\ Len(currentlist) = 0
        THEN <<Event("release_none", NoRegion)>> ELSE <<>>)

\* Mutant: the kind events are delivered before the enter events
dispatchedEvents_kindFirst(what, currentlist, prevlist) ==
    EventsOf("exit", SelectSeq(prevlist, LAMBDA r : ~Includes(currentlist, r)))
    \o EventsOf(kindEvent(what), currentlist)
    \o EventsOf("enter", SelectSeq(currentlist, LAMBDA r : ~Includes(prevlist, r)))
    \o (IF what = "release" /\ Len(currentlist) = 0
        THEN <<Event("release_none", NoRegion)>> ELSE <<>>)

\* Mutant: release_none is delivered on every release
dispatchedEvents_releaseAlways(what, currentlist, prevlist) ==
    EventsOf("exit", SelectSeq(prevlist, LAMBDA r : ~Includes(currentlist, r)))
    \o EventsOf("enter", SelectSeq(currentlist, LAMBDA r : ~Includes(prevlist, r)))
    \o EventsOf(kindEvent(what), currentlist)
    \o (IF what = "release" THEN <<Event("release_none", NoRegion)>> ELSE <<>>)

\* The calls of actOnEvent that one dispatchRawEvent makes, in the order it makes them
dispatchedEvents(what, currentlist, prevlist) ==
    EventsOf("exit", exit_region(currentlist, prevlist))
    \o EventsOf("enter", enter_region(currentlist, prevlist))
    \o EventsOf(kindEvent(what), currentlist)
    \o (IF what = "release" /\ Len(currentlist) = 0
        THEN <<Event("release_none", NoRegion)>> ELSE <<>>)

\* One delivered event as lastCall records it: the event, the FSM's fields before
\* the call, and what actOnEvent left behind
Delivered(ev, cur, img, r) ==
    [evtType |-> ev.evtType, region |-> ev.region, before |-> cur, imgBefore |-> img,
     after |-> r.cur, imgAfter |-> r.img, evaluated |-> r.evaluated,
     executed |-> r.executed, out |-> r.out, fired |-> r.fired, assigns |-> r.assigns]

\* d after the next event ev has been handed to actOnEvent and left r
DeliveredNext(d, ev, r) ==
    [cur |-> r.cur, img |-> r.img, log |-> Append(d.log, Delivered(ev, d.cur, d.img, r))]

\* Every event matched against the state the FSM was in when the raw event came
RECURSIVE deliverAll_fromFirstState(_, _, _, _)
deliverAll_fromFirstState(f, evs, k, d) ==
    IF k > Len(evs) THEN d
    ELSE deliverAll_fromFirstState(f, evs, k + 1,
             DeliveredNext([d EXCEPT !.cur = IF d.log = <<>> THEN d.cur ELSE d.log[1].before],
                           evs[k],
                           actOnEvent(f, IF d.log = <<>> THEN d.cur ELSE d.log[1].before,
                                      d.img, evs[k].evtType, evs[k].region)))

\* Each event is handed to actOnEvent in turn, from event k on; d carries the FSM's
\* fields and the log of the events delivered so far
RECURSIVE deliverAll(_, _, _, _)
deliverAll(f, evs, k, d) ==
    IF k > Len(evs) THEN d
    ELSE deliverAll(f, evs, k + 1,
             DeliveredNext(d, evs[k], actOnEvent(f, d.cur, d.img, evs[k].evtType, evs[k].region)))

\* Mutant: an empty pick is not stored
storedPickList_keepOnEmpty(currentlist, prevlist) ==
    IF currentlist = <<>> THEN prevlist ELSE currentlist

\* Mutant: the pick is never stored
storedPickList_stale(currentlist, prevlist) == prevlist

\* What the call stores in this.lastPickedRegions at its end
storedPickList(currentlist, prevlist) == currentlist

Call(op, what, x, y, hadFsm, prevlist, log) ==
    [op |-> op, what |-> what, x |-> x, y |-> y, hadFsm |-> hadFsm,
     prevlist |-> prevlist, log |-> log]

\* The history before any event was delivered
NeverEntered == [regions |-> {}, alternating |-> TRUE]

\* The history h after event c was delivered
trackedEvent(h, c) ==
    IF c.evtType = "enter"
    THEN [regions |-> h.regions \cup {c.region},
          alternating |-> h.alternating /\ c.region \notin h.regions]
    ELSE IF c.evtType = "exit"
    THEN [regions |-> h.regions \ {c.region},
          alternating |-> h.alternating /\ c.region \in h.regions]
    ELSE h

\* The history h after the events of log were delivered, from the k-th on
RECURSIVE tracked(_, _, _)
tracked(h, log, k) ==
    IF k > Len(log) THEN h ELSE tracked(trackedEvent(h, log[k]), log, k + 1)

\* The body of dispatchRawEvent once an FSM is known to be installed
dispatchTo(what, localX, localY, currentlist, prevlist, d) ==
    /\ currentState' = d.cur
    /\ imageLoc' = d.img
    /\ lastPickedRegions' = storedPickList(currentlist, prevlist)
    /\ lastCall' = Call("dispatchRawEvent", what, localX, localY, TRUE, prevlist, d.log)
    /\ entered' = tracked(entered, d.log, 1)
    /\ UNCHANGED <<fsm, hostVars>>

dispatchFrom(what, localX, localY, currentlist, prevlist) ==
    dispatchTo(what, localX, localY, currentlist, prevlist,
               deliverAll(fsm, dispatchedEvents(what, currentlist, prevlist), 1,
                          [cur |-> currentState, img |-> imageLoc, log |-> <<>>]))

\* dispatchRawEvent forgetting the previous pick-set when there is no FSM
dispatchRawEvent_forgetful(what, localX, localY) ==
    IF fsm = NoFSM
    THEN /\ lastCall' = Call("dispatchRawEvent", what, localX, localY, FALSE,
                             lastPickedRegions, <<>>)
         /\ lastPickedRegions' = <<>>
         /\ UNCHANGED <<fsm, currentState, imageLoc, hostVars, entered>>
    ELSE dispatchFrom(what, localX, localY, pick(fsm, localX, localY), lastPickedRegions)

dispatchRawEvent(what, localX, localY) ==
    IF fsm = NoFSM
    THEN /\ lastCall' = Call("dispatchRawEvent", what, localX, localY, FALSE,
                             lastPickedRegions, <<>>)
         /\ UNCHANGED <<fsm, currentState, imageLoc, lastPickedRegions, hostVars, entered>>
    ELSE dispatchFrom(what, localX, localY, pick(fsm, localX, localY), lastPickedRegions)

\* pick storing its result as the previous pick
pickedHistory_stored(currentlist, prevlist) == currentlist

\* lastPickedRegions after a call of pick: pick assigns its local pickList only
pickedHistory(currentlist, prevlist) == prevlist

\* A call of pick from outside the interactor, which returned pickList
picked(localX, localY, pickList) ==
    /\ lastPickedRegions' = pickedHistory(pickList, lastPickedRegions)
    /\ lastCall' = [op |-> "pick", x |-> localX, y |-> localY, out |-> pickList,
                    hadFsm |-> fsm # NoFSM, prevlist |-> lastPickedRegions]
    /\ UNCHANGED <<fsm, currentState, imageLoc, hostVars, entered>>

\* --------------------------------------- FSMInteractor.startLoadFromJson

\* The entries of list whose name no earlier entry has, in order: what the loops
\* of FSM.fromJson push
FirstOfName(list) ==
    LET K == {i \in 1..Len(list) : \A j \in 1..(i - 1) : list[j].name # list[i].name}
        nth(k) == CHOOSE i \in K : Cardinality({j \in K : j <= i}) = k
    IN  [k \in 1..Cardinality(K) |-> list[nth(k)]]

\* The regions and states FSM.fromJson collects from a description; a list that is
\* not an array (here: not there at all) contributes nothing
Collected(json) ==
    [regions |-> IF "regions" \in DOMAIN json THEN FirstOfName(json.regions) ELSE <<>>,
     states |-> IF "states" \in DOMAIN json THEN FirstOfName(json.states) ELSE <<>>]

\* The positions of list whose name an earlier entry has
Duplicated(list) ==
    {i \in 1..Len(list) : \E j \in 1..(i - 1) : list[j].name = list[i].name}

Complaint(why, state, transition, action) ==
    [why |-> why, state |-> state, transition |-> transition, action |-> action]

\* The calls of Err.emit in FSM.fromJson; each returns, and fromJson goes on
FSM_fromJson_errors(json) ==
    (IF "regions" \in DOMAIN json
     THEN {Complaint("Duplicate region", i, 0, 0) : i \in Duplicated(json.regions)}
     ELSE {Complaint("Region list is not an array", 0, 0, 0)})
    \cup
    (IF "states" \in DOMAIN json
     THEN {Complaint("Duplicate state", i, 0, 0) : i \in Duplicated(json.states)}
          \cup (IF Len(json.states) = 0 THEN {Complaint("No states", 0, 0, 0)} ELSE {})
     ELSE {Complaint("State list is not an array", 0, 0, 0)})

\* The complaints of the binding pass of FSM._finalize over the FSM f it leaves
finalize_errors(f) ==
    UNION {
        UNION {
            LET t == f.states[k].transitions[i]
            IN  (IF t.target = 0 THEN {Complaint("target", k, i, 0)} ELSE {})
                \cup
                (IF EventSpec_bindEmits(t.onEvent, f.regions) > 0
                 THEN {Complaint("event region", k, i, 0)} ELSE {})
                \cup
                {Complaint("action region", k, i, j) :
                    j \in {n \in 1..Len(t.actions) : Action_bindEmits(t.actions[n], f.regions) > 0}}
            : i \in 1..Len(f.states[k].transitions)}
        : k \in 1..Len(f.states)}

\* fromJson handing back an FSM that was never bound
FSM_fromJson_unbound(json, gen) == FSM_unbound(Collected(json), gen)

\* FSM.fromJson(data, this): the FSM object gen
FSM_fromJson(json, gen) == FSM_new(Collected(json), gen)

\* damage() notifying the parent twice
damage_twice == IF parent # NoRoot THEN <<"damage", "damage">> ELSE <<>>

\* damage(): the notifications the parent receives
damage == IF parent # NoRoot THEN <<"damage">> ELSE <<>>

\* pending without its i-th entry
Resumed(i) == SubSeq(pending, 1, i - 1) \o SubSeq(pending, i + 1, Len(pending))

\* What lastCall records of a step of startLoadFromJson: the call id, the await it
\* resumed from, how the step ended, and what it did, in order
Load(id, at, outcome, steps) ==
    [op |-> "startLoadFromJson", id |-> id, at |-> at, outcome |-> outcome, steps |-> steps]

\* The call clearing the FSM reference before it fetches
fetching_cleared(f) == NoFSM

\* The FSM reference when the call suspends at fetch: nothing is assigned before
fetching(f) == f

\* startLoadFromJson(jsonLoc) up to its first await
startLoadFromJson ==
    /\ started < MaxLoads
    /\ started' = started + 1
    /\ pending' = Append(pending, [id |-> started + 1, pc |-> "fetch"])
    /\ fsm' = fetching(fsm)
    /\ currentState' = (IF fsm' = NoFSM THEN 0 ELSE currentState)
    /\ imageLoc' = (IF fsm' = NoFSM THEN <<>> ELSE imageLoc)
    /\ lastCall' = Load(started + 1, "call", "fetching", <<>>)
    /\ UNCHANGED <<lastPickedRegions, parent, position, entered>>

\* The promise of the call rejects: an exception leaves the function, no statement
\* after the await runs
rejected(i, at, why) ==
    /\ pending' = Resumed(i)
    /\ lastCall' = Load(pending[i].id, at, why, <<"throw">>)
    /\ UNCHANGED <<fsm, currentState, imageLoc, lastPickedRegions, parent, started, position, entered>>

\* The response is not ok: Err.emit, this._fsm = undefined, return
loadFailed(i) ==
    /\ pending' = Resumed(i)
    /\ fsm' = NoFSM
    /\ currentState' = 0
    /\ imageLoc' = <<>>
    /\ lastCall' = Load(pending[i].id, "fetch", "not ok", <<"emit", "clear">>)
    /\ UNCHANGED <<lastPickedRegions, parent, started, position, entered>>

\* The response is ok: the call suspends at response.json()
parsing(i) ==
    /\ pending' = [pending EXCEPT ![i].pc = "json"]
    /\ lastCall' = Load(pending[i].id, "fetch", "parsing", <<>>)
    /\ UNCHANGED <<fsm, currentState, imageLoc, lastPickedRegions, parent, started, position, entered>>

\* this._fsm = FSM.fromJson(data, this); this.damage()
installed(i, data, f) ==
    /\ pending' = Resumed(i)
    /\ fsm' = f
    /\ currentState' = startState(f)
    /\ imageLoc' = InitialImages(Collected(data))
    /\ lastCall' = Load(pending[i].id, "json", "installed", <<"install">> \o damage)
    /\ UNCHANGED <<lastPickedRegions, parent, started, position, entered>>

\* The effect of a call of actOnEvent that left r
actedOn(evtType, reg, r) ==
    /\ currentState' = r.cur
    /\ imageLoc' = r.img
    /\ lastCall' = Call("actOnEvent", "", 0, 0, TRUE, lastPickedRegions,
                        <<Delivered(Event(evtType, reg), currentState, imageLoc, r)>>)
    /\ UNCHANGED <<fsm, lastPickedRegions, hostVars, entered>>

\* A call of the installed FSM's actOnEvent from outside the interactor
ActOnEvent(evtType, reg) ==
    /\ fsm # NoFSM
    /\ actedOn(evtType, reg, actOnEvent(fsm, currentState, imageLoc, evtType, reg))

\* ------------------- FSM.reset, and the interactor's draw, damage and setters

\* reset clearing the image of every region as well
reset_cleared(f, img) == [i \in 1..Len(img) |-> ""]

\* The region images after reset(): it does not touch them
reset_kept(f, img) == img

\* FSM.reset(), called on the installed FSM
reset ==
    /\ fsm # NoFSM
    /\ currentState' = startState(fsm)
    /\ imageLoc' = reset_kept(fsm, imageLoc)
    /\ lastCall' = [op |-> "reset", before |-> currentState, images |-> imageLoc]
    /\ UNCHANGED <<fsm, lastPickedRegions, hostVars, entered>>

\* What draw does for region i of f: ctx.translate(reg.x, reg.y), then reg.draw
\* with showDebugging, which the loop body has just set to true
drawn(f, i, showDebugging) ==
    [region |-> f.regions[i], translate |-> <<f.box[i].x, f.box[i].y>>, showDebugging |-> TRUE]

\* draw(ctx, showDebugging): the calls of Region.draw it makes, in order
draw(showDebugging) ==
    /\ lastCall' = [op |-> "draw", showDebugging |-> showDebugging, hadFsm |-> fsm # NoFSM,
                    visited |-> IF fsm = NoFSM THEN <<>>
                                ELSE [i \in 1..Len(fsm.regions) |-> drawn(fsm, i, showDebugging)]]
    /\ UNCHANGED <<fsm, currentState, imageLoc, lastPickedRegions, hostVars, entered>>

\* A call of damage() from outside (the FSM calls it for its regions)
damaged ==
    /\ lastCall' = [op |-> "damage", steps |-> damage]
    /\ UNCHANGED <<fsm, currentState, imageLoc, lastPickedRegions, hostVars, entered>>

\* set x(v)
set_x(v) ==
    /\ position' = (IF position[1] # v THEN <<v, position[2]>> ELSE position)
    /\ lastCall' = [op |-> "set x", v |-> v,
                    steps |-> IF position[1] # v THEN damage ELSE <<>>]
    /\ UNCHANGED <<fsm, currentState, imageLoc, lastPickedRegions, parent, pending,
                   started, entered>>

\* set y(v)
set_y(v) ==
    /\ position' = (IF position[2] # v THEN <<position[1], v>> ELSE position)
    /\ lastCall' = [op |-> "set y", v |-> v,
                    steps |-> IF position[2] # v THEN damage ELSE <<>>]
    /\ UNCHANGED <<fsm, currentState, imageLoc, lastPickedRegions, parent, pending,
                   started, entered>>

\* set position(v)
set_position(v) ==
    /\ position' = (IF v[1] # position[1] \/ v[2] # position[2] THEN v ELSE position)
    /\ lastCall' = [op |-> "set position", v |-> v,
                    steps |-> IF v[1] # position[1] \/ v[2] # position[2] THEN damage ELSE <<>>]
    /\ UNCHANGED <<fsm, currentState, imageLoc, lastPickedRegions, parent, pending,
                   started, entered>>

\* A call the setter of parent makes on the Root object root
RootCall(root, call) == [root |-> root, call |-> call]

\* set parent(v): the old parent, if any, is told to remove the interactor and to
\* redraw, then the new one, if any, to add it and to redraw
set_parent(v) ==
    /\ parent' = v
    /\ lastCall' =
          [op |-> "set parent", v |-> v, before |-> parent,
           steps |->
              IF parent = v THEN <<>>
              ELSE (IF parent # NoRoot
                    THEN <<RootCall(parent, "removeChild"), RootCall(parent, "damage")>>
                    ELSE <<>>)
                   \o
                   (IF v # NoRoot
                    THEN <<RootCall(v, "addChild"), RootCall(v, "damage")>>
                    ELSE <<>>)]
    /\ UNCHANGED <<fsm, currentState, imageLoc, lastPickedRegions, pending, started,
                   position, entered>>

\* -------------------------------------------------------------- the system

\* The values of the constructor's parent argument: none, or a Root object
Roots == {NoRoot, 1}

\* new FSMInteractor(fsm): with no FSM, or with an FSM built from a description
Construct(d) ==
    /\ fsm = (IF d = 0 THEN NoFSM ELSE FSM_new(Descs[d], 1))
    /\ currentState = (IF d = 0 THEN 0 ELSE startState(fsm))
    /\ imageLoc = (IF d = 0 THEN <<>> ELSE InitialImages(Descs[d]))
    /\ lastPickedRegions = <<>>
    /\ lastCall = Call("constructor", "", 0, 0, d # 0, <<>>, <<>>)
    /\ parent \in Roots
    /\ pending = <<>>
    /\ started = 0
    /\ position = <<0, 0>>
    /\ entered = NeverEntered

Init == \E d \in 0..Len(Descs) : Construct(d)

DispatchRawEvent ==
    \E what \in RawKinds, localX \in 0..MaxX, localY \in 0..MaxY :
        dispatchRawEvent(what, localX, localY)

ActOnEventCall ==
    \E evtType \in Range(evtTypeStrings), reg \in (IF fsm = NoFSM THEN {} ELSE Range(fsm.regions)) \cup {NoRegion} :
        ActOnEvent(evtType, reg)

\* The region names an EventSpec is constructed with: names of declared regions,
\* the wildcard, the empty name and a name no description declares
EventRegionNames == {"A", "C", "*", "", "Z"}

\* The regions an event can carry: those of the installed FSM, none, and a region of
\* another FSM object that has the name of one of them
EventRegions ==
    IF fsm = NoFSM THEN {NoRegion, [gen |-> 1, idx |-> 1, name |-> "A"]}
    ELSE Range(fsm.regions) \cup {NoRegion, [fsm.regions[1] EXCEPT !.gen = fsm.gen + 1]}

\* An EventSpec as constructed, or as bound against the regions of the installed FSM
EventSpecOf(evtTyp, regionName, bound) ==
    IF bound
    THEN BoundEventSpec(IF fsm = NoFSM THEN <<>> ELSE fsm.regions, Ev(evtTyp, regionName))
    ELSE EventSpec_new(evtTyp, regionName)

\* An interactor, an EventSpec and an event to try on it
ConstructMatch(d) ==
    /\ fsm = (IF d = 0 THEN NoFSM ELSE FSM_new(Descs[d], 1))
    /\ currentState = (IF d = 0 THEN 0 ELSE startState(fsm))
    /\ imageLoc = (IF d = 0 THEN <<>> ELSE InitialImages(Descs[d]))
    /\ lastPickedRegions = <<>>
    /\ parent = NoRoot
    /\ pending = <<>>
    /\ started = 0
    /\ position = <<0, 0>>
    /\ entered = NeverEntered
    /\ \E evtTyp \in Range(evtTypeStrings), regionName \in EventRegionNames,
          bound \in BOOLEAN, evtType \in Range(evtTypeStrings), regn \in EventRegions :
            lastCall = [op |-> "new EventSpec", spec |-> EventSpecOf(evtTyp, regionName, bound),
                        evtType |-> evtType, regn |-> regn]

InitMatch == \E d \in 0..Len(Descs) : ConstructMatch(d)

\* The call spec.match(evtType, regn) and its result
MatchCall ==
    /\ lastCall.op = "new EventSpec"
    /\ lastCall' = [op |-> "match", spec |-> lastCall.spec, evtType |-> lastCall.evtType,
                    regn |-> lastCall.regn,
                    out |-> match(lastCall.spec, lastCall.evtType, lastCall.regn)]
    /\ UNCHANGED <<fsm, currentState, imageLoc, lastPickedRegions, hostVars, entered>>

\* The names an Action is constructed with
ActionRegionNames == {"A", "C", "", "Z"}

\* The regions an object can be bound to before bindRegion is called on it: none,
\* or the region with its name of another region list
Priors(name) ==
    IF name = "*" THEN {NoRegion} ELSE {NoRegion, [gen |-> 2, idx |-> 1, name |-> name]}

\* The EventSpec and Action objects bindRegion is called on
Bindable ==
    {[class |-> "EventSpec",
      obj |-> [evtType |-> t, regionName |-> n, region |-> r]] :
        <<t, n, r>> \in {x \in Range(evtTypeStrings) \X EventRegionNames \X
                                (UNION {Priors(m) : m \in EventRegionNames}) :
                            x[3] \in Priors(x[2])}}
    \cup
    {[class |-> "Action",
      obj |-> [actType |-> t, onRegionName |-> n, param |-> "hi", onRegion |-> r]] :
        <<t, n, r>> \in {x \in Range(actionTypeStrings) \X ActionRegionNames \X
                                (UNION {Priors(m) : m \in ActionRegionNames}) :
                            x[3] \in Priors(x[2])}}

\* An interactor, an object to bind and the region list to bind it against
ConstructBind(d) ==
    /\ fsm = (IF d = 0 THEN NoFSM ELSE FSM_new(Descs[d], 1))
    /\ currentState = (IF d = 0 THEN 0 ELSE startState(fsm))
    /\ imageLoc = (IF d = 0 THEN <<>> ELSE InitialImages(Descs[d]))
    /\ lastPickedRegions = <<>>
    /\ parent = NoRoot
    /\ pending = <<>>
    /\ started = 0
    /\ position = <<0, 0>>
    /\ entered = NeverEntered
    /\ \E b \in Bindable :
            lastCall = [op |-> "new", class |-> b.class, obj |-> b.obj,
                        regionList |-> IF d = 0 THEN <<>> ELSE fsm.regions]

InitBind == \E d \in 0..Len(Descs) : ConstructBind(d)

\* What lastCall records of a call of bindRegion
Bound(class, before, after, emitted, regionList) ==
    [op |-> "bindRegion", class |-> class, before |-> before, after |-> after,
     emitted |-> emitted, regionList |-> regionList]

\* The call spec.bindRegion(regionList) of an EventSpec
BindEventSpec ==
    /\ lastCall.op = "new" /\ lastCall.class = "EventSpec"
    /\ lastCall' = Bound("EventSpec", lastCall.obj,
                         EventSpec_afterBind(lastCall.obj, lastCall.regionList),
                         EventSpec_bindEmits(lastCall.obj, lastCall.regionList),
                         lastCall.regionList)
    /\ UNCHANGED <<fsm, currentState, imageLoc, lastPickedRegions, hostVars, entered>>

\* The call action.bindRegion(regionList) of an Action
BindAction ==
    /\ lastCall.op = "new" /\ lastCall.class = "Action"
    /\ lastCall' = Bound("Action", lastCall.obj,
                         Action_afterBind(lastCall.obj, lastCall.regionList),
                         Action_bindEmits(lastCall.obj, lastCall.regionList),
                         lastCall.regionList)
    /\ UNCHANGED <<fsm, currentState, imageLoc, lastPickedRegions, hostVars, entered>>

\* new FSMInteractor(FSM.fromJson(json)): FSM.fromJson always comes to its return
\* statement, so the interactor gets an FSM whatever was reported on the way
ConstructBuild(json) ==
    /\ fsm = FSM_fromJson(json, 1)
    /\ currentState = startState(fsm)
    /\ imageLoc = InitialImages(Collected(json))
    /\ lastPickedRegions = <<>>
    /\ parent \in Roots
    /\ pending = <<>>
    /\ started = 0
    /\ position = <<0, 0>>
    /\ entered = NeverEntered
    /\ lastCall = [op |-> "FSM.fromJson",
                   errors |-> FSM_fromJson_errors(json) \cup finalize_errors(fsm)]

InitBuild == \E b \in 1..Len(BuildDescs) : ConstructBuild(BuildDescs[b])

\* Calls from the host, with samples of their arguments
Reset == reset

Draw == \E showDebugging \in BOOLEAN : draw(showDebugging)

Damage == damaged

\* The coordinates the setters are called with
Coords == {0, 1}

SetX == \E v \in Coords : set_x(v)

SetY == \E v \in Coords : set_y(v)

SetPosition == \E v \in Coords \X Coords : set_position(v)

\* The values the setter of parent is called with: none, or one of two Root objects
Parents == {NoRoot, 1, 2}

SetParent == \E v \in Parents : set_parent(v)

\* The events an action is executed for
ExecuteEvents == {<<"press", 1>>, <<"release_none", 0>>}

\* What lastCall records of a call of execute: the action, the event, the images
\* and the console output it left, and the images before it
Ran(a, evtType, evtReg, e, img) ==
    [op |-> "execute", action |-> a, evtType |-> evtType, evtReg |-> evtReg,
     out |-> e.out, images |-> img]

\* The call action.execute(evtType, evtReg) of an action that was bound to a
\* region of the installed FSM, or left without one
Execute ==
    /\ lastCall.op = "bindRegion" /\ lastCall.class = "Action"
    /\ lastCall.after.onRegion \in Range(lastCall.regionList) \cup {NoRegion}
    /\ \E ev \in ExecuteEvents :
        LET evtReg == IF ev[2] = 0 \/ fsm = NoFSM THEN NoRegion ELSE fsm.regions[ev[2]]
            e == execute(lastCall.after, ev[1], evtReg, imageLoc, <<>>)
        IN  /\ imageLoc' = e.img
            /\ lastCall' = Ran(lastCall.after, ev[1], evtReg, e, imageLoc)
    /\ UNCHANGED <<fsm, currentState, lastPickedRegions, hostVars, entered>>

PickCall ==
    \E localX \in 0..MaxX, localY \in 0..MaxY :
        picked(localX, localY, pick(fsm, localX, localY))

\* The outcomes of fetch: a response that is ok or not, or a rejection
FetchOutcomes == {"ok", "not ok", "fetch rejected"}

\* startLoadFromJson resumes from await fetch(jsonLoc)
Fetched ==
    \E i \in 1..Len(pending), r \in FetchOutcomes :
        /\ pending[i].pc = "fetch"
        /\ CASE r = "ok" -> parsing(i)
             [] r = "not ok" -> loadFailed(i)
             [] OTHER -> rejected(i, "fetch", r)

\* The bodies a response can have: text that is no JSON (0), or one of two
\* descriptions with different region layouts (DescButton, DescNested)
Bodies == {0, 1, 3}

\* startLoadFromJson resumes from await response.json()
Parsed ==
    \E i \in 1..Len(pending), b \in Bodies :
        /\ pending[i].pc = "json"
        /\ IF b = 0 THEN rejected(i, "json", "parse error")
           ELSE installed(i, Descs[b], FSM_fromJson(Descs[b], pending[i].id + 1))

StartLoad == startLoadFromJson

\* The raw samples sent while descriptions are loaded: a point inside A of
\* RegionsRow and outside RegionsNested, a point inside two or three regions, and a
\* point outside RegionsRow and inside two regions of RegionsNested
LoadSamples == {<<0, 0>>, <<2, 1>>, <<3, 0>>}

DispatchSample ==
    \E what \in RawKinds, p \in LoadSamples :
        dispatchRawEvent(what, p[1], p[2])

PickSample == \E p \in LoadSamples : picked(p[1], p[2], pick(fsm, p[1], p[2]))

\* The interactor driven by raw samples
Next ==
    \/ DispatchRawEvent

Spec == Init /\ [][Next]_vars

\* The FSM driven directly, with every event type and every region or none
NextFSM ==
    \/ ActOnEventCall

SpecFSM == Init /\ [][NextFSM]_vars

\* The interactor driven by raw samples, with calls of pick in between
NextPick ==
    \/ DispatchRawEvent
    \/ PickCall

SpecPick == Init /\ [][NextPick]_vars

\* The interactor driven by raw samples while descriptions are loaded
NextLoad ==
    \/ DispatchSample
    \/ StartLoad
    \/ Fetched
    \/ Parsed

SpecLoad == Init /\ [][NextLoad]_vars

\* The interactor and its FSM under every operation the host can call on them
NextOps ==
    \/ DispatchSample
    \/ PickSample
    \/ Reset
    \/ Draw
    \/ Damage
    \/ SetX
    \/ SetY
    \/ SetPosition
    \/ SetParent

SpecOps == Init /\ [][NextOps]_vars

\* An interactor constructed on what FSM.fromJson makes of a description, sound or
\* not, and driven by raw samples
NextBuild ==
    \/ DispatchSample

SpecBuild == InitBuild /\ [][NextBuild]_vars

\* bindRegion applied to every EventSpec and Action, and execute to the Action
NextBind ==
    \/ BindEventSpec
    \/ BindAction
    \/ Execute

SpecBind == InitBind /\ [][NextBind]_vars

\* EventSpec.match applied to every EventSpec and every event
NextMatch ==
    \/ MatchCall

SpecMatch == InitMatch /\ [][NextMatch]_vars

\* ---------------------------------------------------- reading lastCall

\* The last call was a dispatchRawEvent made while an FSM was installed
IsDispatch == lastCall.op = "dispatchRawEvent" /\ lastCall.hadFsm

\* The events handed to actOnEvent by the last call, in order
DeliveredEvents ==
    [i \in 1..Len(lastCall.log) |-> Event(lastCall.log[i].evtType, lastCall.log[i].region)]

\* The regions for which an event of type evtType was delivered, in order
DeliveredFor(evtType) ==
    LET hits == SelectSeq(DeliveredEvents, LAMBDA e : e.evtType = evtType)
    IN  [i \in 1..Len(hits) |-> hits[i].region]

\* The elements of sequence a that do not occur in b, in a's order
OrderedDiff(a, b) ==
    LET K == {i \in 1..Len(a) : \A j \in 1..Len(b) : b[j] # a[i]}
        nth(k) == CHOOSE i \in K : Cardinality({j \in K : j <= i}) = k
    IN  [k \in 1..Cardinality(K) |-> a[nth(k)]]

KindTypes == {"press", "release", "move_inside"}

\* The event type a raw kind stands for
KindType(kind) == IF kind = "move" THEN "move_inside" ELSE kind

\* The point lies in the box, edges included
RefInside(box, x, y) ==
    /\ x \in box.x..(box.x + box.w)
    /\ y \in box.y..(box.y + box.h)

\* The indices of the regions of the installed FSM that cover the point
Covering(x, y) ==
    IF fsm = NoFSM THEN {} ELSE {i \in 1..Len(fsm.box) : RefInside(fsm.box[i], x, y)}

\* The indices of the regions of the installed FSM
RegionIdx == IF fsm = NoFSM THEN {} ELSE 1..Len(fsm.regions)

\* Two boxes with no point in common
Disjoint(a, b) ==
    \/ a.x + a.w < b.x \/ b.x + b.w < a.x
    \/ a.y + a.h < b.y \/ b.y + b.h < a.y

\* The pick of the last call's point
CurrentPick == pick(fsm, lastCall.x, lastCall.y)

\* ------------------------------------------------------------- claims

C2_EnteredExited ==
    IsDispatch =>
        /\ DeliveredFor("enter") = OrderedDiff(CurrentPick, lastCall.prevlist)
        /\ DeliveredFor("exit") = OrderedDiff(lastCall.prevlist, CurrentPick)
        /\ \A r \in Range(CurrentPick) \cap Range(lastCall.prevlist) :
            \A i \in 1..Len(DeliveredEvents) :
                DeliveredEvents[i].region = r => DeliveredEvents[i].evtType \notin {"enter", "exit"}

\* A call with a region entered, a region exited and a region in both picks
C2_Witness ==
    /\ IsDispatch
    /\ Len(DeliveredFor("enter")) >= 1
    /\ Len(DeliveredFor("exit")) >= 1
    /\ Range(CurrentPick) \cap Range(lastCall.prevlist) # {}

\* C3: with an empty previous pick, a raw move to a point inside region A only
\* delivers exactly <<enter(A), move_inside(A)>>.
C3_EnterThenMove ==
    \A a \in RegionIdx :
        (/\ IsDispatch
         /\ lastCall.what = "move"
         /\ lastCall.prevlist = <<>>
         /\ Covering(lastCall.x, lastCall.y) = {a})
        => DeliveredEvents = <<Event("enter", fsm.regions[a]), Event("move_inside", fsm.regions[a])>>

\* A move into one region from an empty previous pick
C3_Witness ==
    /\ IsDispatch
    /\ lastCall.what = "move"
    /\ lastCall.prevlist = <<>>
    /\ Cardinality(Covering(lastCall.x, lastCall.y)) = 1

\* C4: when the previous raw sample was inside region A only and the next raw move
\* is inside region B only, A and B disjoint, the move delivers exactly
\* <<exit(A), enter(B), move_inside(B)>>.
C4_ExitEnterMove ==
    [][\A a, b \in RegionIdx :
        (/\ IsDispatch
         /\ Covering(lastCall.x, lastCall.y) = {a}
         /\ IsDispatch'
         /\ lastCall'.what = "move"
         /\ Covering(lastCall'.x, lastCall'.y) = {b}
         /\ fsm' = fsm
         /\ Disjoint(fsm.box[a], fsm.box[b]))
        => DeliveredEvents' = << Event("exit", fsm.regions[a]), Event("enter", fsm.regions[b]),
                                 Event("move_inside", fsm.regions[b]) >>]_vars

\* A move that left one region for another one disjoint from it
C4_Witness ==
    /\ IsDispatch
    /\ lastCall.what = "move"
    /\ Len(lastCall.prevlist) = 1
    /\ Len(CurrentPick) = 1
    /\ Disjoint(fsm.box[lastCall.prevlist[1].idx], fsm.box[CurrentPick[1].idx])
    /\ Len(lastCall.log) = 3

\* C5: a raw press at a point covered by no region delivers no press event, and a raw
\* release at a point covered by no region that follows it delivers exactly
\* <<release_none>>.
C5_PressThenReleaseOutside ==
    /\ [](IsDispatch /\ lastCall.what = "press" /\ Covering(lastCall.x, lastCall.y) = {}
            => DeliveredFor("press") = <<>>)
    /\ [][(/\ IsDispatch
           /\ lastCall.what = "press"
           /\ Covering(lastCall.x, lastCall.y) = {}
           /\ IsDispatch'
           /\ lastCall'.what = "release"
           /\ Covering(lastCall'.x, lastCall'.y) = {})
          => DeliveredEvents' = <<Event("release_none", NoRegion)>>]_vars

\* A release outside every region, after a sample outside every region
C5_Witness ==
    /\ IsDispatch
    /\ lastCall.what = "release"
    /\ Covering(lastCall.x, lastCall.y) = {}
    /\ lastCall.prevlist = <<>>
    /\ Len(lastCall.log) = 1

\* C6: a release_none event is delivered if and only if the raw kind is release and
\* pick(x, y) is empty; then there is exactly one, it carries no region and it
\* comes after every exit event of the call.
C6_ReleaseNone ==
    IsDispatch =>
        LET evs == DeliveredEvents
            at == {i \in 1..Len(evs) : evs[i].evtType = "release_none"}
        IN  /\ (at # {}) <=> (lastCall.what = "release" /\ CurrentPick = <<>>)
            /\ Cardinality(at) <= 1
            /\ \A i \in at :
                /\ evs[i].region = NoRegion
                /\ \A j \in 1..Len(evs) : evs[j].evtType = "exit" => j < i

\* A release outside every region that also delivers an exit
C6_Witness ==
    /\ IsDispatch
    /\ Len(DeliveredFor("release_none")) = 1
    /\ Len(DeliveredFor("exit")) >= 1

\* C7: after every dispatchRawEvent with an FSM installed, lastPickedRegions is
\* pick(x, y) of that call, whether or not a transition fired.
C7_StoresCurrentPick ==
    IsDispatch => lastPickedRegions = CurrentPick

\* A call in which events were delivered, none fired a transition, and the stored
\* pick changed
C7_Witness ==
    /\ IsDispatch
    /\ Len(lastCall.log) >= 1
    /\ \A i \in 1..Len(lastCall.log) : lastCall.log[i].fired = 0
    /\ lastPickedRegions # lastCall.prevlist
    /\ lastPickedRegions # <<>>

\* ------------------------------------------------- claims on actOnEvent

\* The calls of actOnEvent the last call made (one, for a direct call)
ActCalls == {lastCall.log[i] : i \in 1..Len(lastCall.log)}

\* The transitions of the state the FSM was in when call c was made
TransitionsAt(c) == IF c.before = 0 THEN <<>> ELSE fsm.states[c.before].transitions

\* The transitions of that state whose EventSpec matches the event of call c
Matching(c) ==
    {i \in 1..Len(TransitionsAt(c)) :
        match(TransitionsAt(c)[i].onEvent, c.evtType, c.region)}

FirstMatching(c) == CHOOSE i \in Matching(c) : \A j \in Matching(c) : i <= j

\* The image of region idx after the actions as have run in order from img: that of
\* the last set_image or clear_image on the region, if any
ImageAfter(as, img, idx) ==
    LET K == {k \in 1..Len(as) :
                /\ as[k].actType \in {"set_image", "clear_image"}
                /\ as[k].onRegion # NoRegion
                /\ as[k].onRegion.idx = idx}
        last == CHOOSE k \in K : \A j \in K : j <= k
    IN  IF K = {} THEN img[idx]
        ELSE IF as[last].actType = "set_image" THEN as[last].param ELSE ""

\* The text an action prints for the event of call c
PrintedBy(a, c) ==
    IF a.actType = "print" THEN a.param
    ELSE a.param \o c.evtType \o "("
         \o (IF c.region = NoRegion THEN "undefined" ELSE c.region.name) \o ")"

\* The console output of the actions as, in order, for the event of call c
PrintedAll(as, c) ==
    LET ps == SelectSeq(as, LAMBDA a : a.actType \in {"print", "print_event"})
    IN  [k \in 1..Len(ps) |-> PrintedBy(ps[k], c)]

\* C8: actOnEvent takes the first transition of the current state, in declared
\* order, whose EventSpec matches: match is evaluated for the transitions up to it
\* and for no later one, its actions (and no others) are executed in declared
\* order, and currentState becomes its target.
C8_FirstMatchTaken ==
    \A c \in ActCalls :
        Matching(c) # {} =>
            LET first == FirstMatching(c)
                t == TransitionsAt(c)[first]
            IN  /\ c.fired = first
                /\ c.evaluated = [i \in 1..first |-> i]
                /\ c.executed = [k \in 1..Len(t.actions) |-> <<first, k>>]
                /\ c.after = t.target
                /\ c.imgAfter = [idx \in 1..Len(c.imgBefore) |-> ImageAfter(t.actions, c.imgBefore, idx)]
                /\ c.out = PrintedAll(t.actions, c)
                /\ lastCall.op = "actOnEvent" => currentState = t.target /\ imageLoc = c.imgAfter

\* A call with at least two matching transitions that takes the first of them, runs
\* two or more of its actions, changes an image and moves to another state
C8_Witness ==
    \E c \in ActCalls :
        /\ Cardinality(Matching(c)) >= 2
        /\ c.fired = FirstMatching(c)
        /\ Len(c.executed) >= 2
        /\ c.after # c.before
        /\ c.imgAfter # c.imgBefore

\* C9: when no transition of the current state matches the event, actOnEvent leaves
\* currentState unchanged, executes no action, prints nothing and changes no
\* region image.
C9_NoMatchNoEffect ==
    \A c \in ActCalls :
        Matching(c) = {} =>
            /\ c.after = c.before
            /\ c.fired = 0
            /\ c.assigns = 0
            /\ c.executed = <<>>
            /\ c.out = <<>>
            /\ c.imgAfter = c.imgBefore
            /\ lastCall.op = "actOnEvent" => currentState = c.before /\ imageLoc = c.imgBefore

\* A call in a state other than the first whose transitions are all evaluated and
\* none matches
C9_Witness ==
    \E c \in ActCalls :
        /\ Matching(c) = {}
        /\ c.before > 1
        /\ Len(c.evaluated) >= 2

\* C10: one call of actOnEvent fires at most one transition: the executed actions
\* all belong to one transition, the one taken, and currentState is assigned at
\* most once (once exactly when a transition is taken).
C10_AtMostOneFires ==
    \A c \in ActCalls :
        /\ c.assigns <= 1
        /\ Cardinality({c.executed[k][1] : k \in 1..Len(c.executed)}) <= 1
        /\ \A k \in 1..Len(c.executed) : c.executed[k][1] = c.fired
        /\ (c.assigns = 1) <=> (c.fired # 0)

\* A call for which two transitions match, one of which fires
C10_Witness ==
    \E c \in ActCalls :
        /\ Cardinality(Matching(c)) >= 2
        /\ c.assigns = 1
        /\ Len(c.executed) >= 1

\* -------------------------------------------------------- C11..C14: match

IsMatch == lastCall.op = "match"

\* eventMatches and regionMatches of the reference predicate, for the recorded call
eventMatches == lastCall.spec.evtType = lastCall.evtType

regionMatches ==
    \/ lastCall.spec.region = lastCall.regn
    \/ lastCall.spec.regionName = "*" /\ lastCall.spec.region = NoRegion

\* C11: for every EventSpec and every event, match returns FALSE if the spec's type
\* is nevermatch, regionMatches if it is any, eventMatches if it is release_none,
\* and eventMatches and regionMatches otherwise.
C11_MatchReference ==
    IsMatch =>
        lastCall.out =
            CASE lastCall.spec.evtType = "nevermatch" -> FALSE
              [] lastCall.spec.evtType = "any" -> regionMatches
              [] lastCall.spec.evtType = "release_none" -> eventMatches
              [] OTHER -> eventMatches /\ regionMatches

\* A press spec with the wildcard name matches a press on a region
C11_Witness ==
    /\ IsMatch
    /\ lastCall.spec.evtType = "press" /\ lastCall.spec.regionName = "*"
    /\ lastCall.evtType = "press" /\ lastCall.regn # NoRegion
    /\ lastCall.out

\* C12: an EventSpec of type nevermatch matches no event type on any region or on
\* none, whatever its region name and whether or not it is bound.
C12_NeverMatch ==
    IsMatch /\ lastCall.spec.evtType = "nevermatch" => ~lastCall.out

\* A bound nevermatch spec asked about a nevermatch event on its own region
C12_Witness ==
    /\ IsMatch
    /\ lastCall.spec.evtType = "nevermatch" /\ lastCall.evtType = "nevermatch"
    /\ lastCall.spec.region # NoRegion /\ lastCall.regn = lastCall.spec.region
    /\ ~lastCall.out

\* C13: an EventSpec of type any bound to region R matches every event type on R,
\* and matches nothing on another region or on no region.
C13_AnyBound ==
    IsMatch /\ lastCall.spec.evtType = "any" /\ lastCall.spec.region # NoRegion =>
        lastCall.out = (lastCall.regn = lastCall.spec.region)

\* Both cases: an event on R, and an event on a region of the same name that is
\* another object
C13_Witness ==
    /\ IsMatch
    /\ lastCall.spec.evtType = "any" /\ lastCall.spec.region # NoRegion
    /\ lastCall.regn # NoRegion /\ lastCall.regn # lastCall.spec.region
    /\ lastCall.regn.name = lastCall.spec.region.name
    /\ ~lastCall.out

\* C14: an EventSpec of type release_none matches release_none on every region and
\* on none, and matches no other event type; its own region name and binding do
\* not matter.
C14_ReleaseNoneSpec ==
    IsMatch /\ lastCall.spec.evtType = "release_none" =>
        lastCall.out = (lastCall.evtType = "release_none")

\* A release_none spec bound to a region matches a release_none that carries another
C14_Witness ==
    /\ IsMatch
    /\ lastCall.spec.evtType = "release_none" /\ lastCall.evtType = "release_none"
    /\ lastCall.spec.region # NoRegion /\ lastCall.regn # NoRegion
    /\ lastCall.regn # lastCall.spec.region
    /\ lastCall.out

\* --------------------------------------------------------- C15..C17: pick

IsPick == lastCall.op = "pick"

\* C15: pick(x, y) contains a region of the installed FSM if and only if the point
\* lies within the region's box, all four edges included; with no FSM installed
\* pick returns the empty sequence.
C15_PickContainment ==
    IsPick =>
        /\ \A i \in RegionIdx :
                Includes(lastCall.out, fsm.regions[i]) <=> RefInside(fsm.box[i], lastCall.x, lastCall.y)
        /\ fsm = NoFSM => lastCall.out = <<>>

\* A pick at the far corner of a box with width and height that holds the region
C15_Witness ==
    /\ IsPick
    /\ \E i \in RegionIdx :
        /\ fsm.box[i].w > 0 /\ fsm.box[i].h > 0
        /\ lastCall.x = fsm.box[i].x + fsm.box[i].w
        /\ lastCall.y = fsm.box[i].y + fsm.box[i].h
        /\ Includes(lastCall.out, fsm.regions[i])
    /\ \E i \in RegionIdx : ~Includes(lastCall.out, fsm.regions[i])

\* C16: the sequence pick returns is the regions that contain the point in the
\* reverse of their declaration order: every element is a region of the FSM that
\* contains the point, every such region occurs, none occurs twice, and of two
\* picked regions the one declared later comes earlier.
C16_PickOrder ==
    IsPick /\ fsm # NoFSM =>
        /\ \A k \in 1..Len(lastCall.out) :
                /\ lastCall.out[k].idx \in Covering(lastCall.x, lastCall.y)
                /\ lastCall.out[k] = fsm.regions[lastCall.out[k].idx]
        /\ Len(lastCall.out) = Cardinality(Covering(lastCall.x, lastCall.y))
        /\ \A k, l \in 1..Len(lastCall.out) :
                k < l => lastCall.out[k].idx > lastCall.out[l].idx

\* A pick of three nested regions
C16_Witness ==
    /\ IsPick
    /\ Len(lastCall.out) = 3
    /\ lastCall.out[1].idx = 3 /\ lastCall.out[3].idx = 1

\* C17: a call of pick changes neither the FSM, nor currentState, nor a region
\* image, nor the previous pick-set; a second call with the same point returns the
\* same sequence; and a raw event that follows a call of pick delivers the events
\* it would have delivered without it, those of the previous pick-set as it was
\* before pick was called.
C17_PickPure ==
    [][/\ IsPick' => UNCHANGED <<fsm, currentState, imageLoc, lastPickedRegions>>
       /\ IsPick /\ IsPick' /\ lastCall'.x = lastCall.x /\ lastCall'.y = lastCall.y
            => lastCall'.out = lastCall.out
       /\ IsPick /\ IsDispatch'
            => DeliveredEvents' =
                 dispatchedEvents(lastCall'.what, pick(fsm, lastCall'.x, lastCall'.y),
                                  lastCall.prevlist)]_vars

\* A call of pick between raw events: the FSM has left its start state, and pick
\* returned regions other than those of the previous pick-set, which is kept
C17_Witness ==
    /\ IsPick
    /\ fsm # NoFSM /\ currentState # startState(fsm)
    /\ lastCall.out # <<>> /\ lastCall.prevlist # <<>>
    /\ lastCall.out # lastCall.prevlist
    /\ lastPickedRegions = lastCall.prevlist

\* ------------------------------------------- C18..C20: startLoadFromJson

IsLoad == lastCall.op = "startLoadFromJson"

\* The last step ended the call of startLoadFromJson it belongs to
Completed == IsLoad /\ lastCall.outcome \notin {"fetching", "parsing"}

\* The ids of the suspended calls in q
PendingIds(q) == {q[i].id : i \in 1..Len(q)}

\* C18: after a failed load (a response that is not ok, or a body that does not
\* parse) the FSM reference is cleared and an error was signaled.
C18_FailedLoadClears ==
    IsLoad /\ lastCall.outcome \in {"not ok", "parse error"} =>
        /\ fsm = NoFSM
        /\ \E k \in 1..Len(lastCall.steps) : lastCall.steps[k] \in {"emit", "throw"}

\* C19, as stated: across every step during which some call of startLoadFromJson
\* stays suspended, the FSM reference does not change.
C19_PendingKeepsFSM ==
    [][PendingIds(pending) \cap PendingIds(pending') # {} => fsm' = fsm]_vars

\* The regions for which call c delivered an event of type evtType, in order
RegionsFor(c, evtType) ==
    LET hits == SelectSeq(c.log, LAMBDA e : e.evtType = evtType)
    IN  [i \in 1..Len(hits) |-> hits[i].region]

\* The call c of dispatchRawEvent ran against FSM f in state cur with previous
\* pick-set prev: the chain of states its events went through starts at cur and
\* follows transitions of f, its kind events are for the regions f has at the
\* point, its enter and exit events for the differences with prev
RanAgainst(c, f, cur, prev) ==
    /\ \A k \in 1..Len(c.log) :
        /\ c.log[k].before = (IF k = 1 THEN cur ELSE c.log[k - 1].after)
        /\ c.log[k].before \in 1..Len(f.states)
        /\ c.log[k].fired \in 0..Len(f.states[c.log[k].before].transitions)
        /\ c.log[k].after =
                (IF c.log[k].fired = 0 THEN c.log[k].before
                 ELSE f.states[c.log[k].before].transitions[c.log[k].fired].target)
    /\ RegionsFor(c, KindType(c.what)) = pick(f, c.x, c.y)
    /\ RegionsFor(c, "enter") = OrderedDiff(pick(f, c.x, c.y), prev)
    /\ RegionsFor(c, "exit") = OrderedDiff(prev, pick(f, c.x, c.y))

\* C19: while a call of startLoadFromJson is suspended, the FSM reference is
\* changed by nothing but the completion of a load; a raw event that arrives then is
\* dispatched against the FSM installed at that moment, and with none installed it
\* delivers no event and changes no state.
C19_PendingRetainsFSM ==
    [][(pending # <<>> \/ pending' # <<>>) =>
        /\ ~Completed' => fsm' = fsm
        /\ lastCall'.op = "dispatchRawEvent" =>
            /\ lastCall'.hadFsm = (fsm # NoFSM)
            /\ fsm # NoFSM => RanAgainst(lastCall', fsm, currentState, lastPickedRegions)
            /\ fsm = NoFSM =>
                /\ lastCall'.log = <<>>
                /\ UNCHANGED <<fsm, currentState, imageLoc, lastPickedRegions, hostVars>>]_vars

\* A raw event, with a call suspended, that fired a transition of an FSM a load
\* had installed
C19_Witness ==
    /\ IsDispatch
    /\ pending # <<>>
    /\ fsm.gen > 1
    /\ \E k \in 1..Len(lastCall.log) : lastCall.log[k].fired # 0

\* Every name of f went through the binding pass
FullyBound(f) ==
    \A k \in 1..Len(f.states) : \A i \in 1..Len(f.states[k].transitions) :
        LET t == f.states[k].transitions[i]
        IN  /\ t.onEvent.region = EventSpec_bindRegion(f.regions, t.onEvent.regionName)
            /\ t.target = bindTarget(f.states, t.targetName)
            /\ t.target # 0
            /\ \A j \in 1..Len(t.actions) :
                    t.actions[j].onRegion = Action_bindRegion(f.regions, t.actions[j].onRegionName)

C30_EnterExitAlternate ==
    /\ entered.alternating
    /\ entered.regions = Range(lastPickedRegions)

\* A raw event that delivers an exit for a region entered by an earlier raw event
\* and an enter for another, with a third region staying entered
C30_Witness ==
    /\ IsDispatch
    /\ DeliveredFor("exit") # <<>>
    /\ DeliveredFor("enter") # <<>>
    /\ \E r \in entered.regions : ~Includes(DeliveredFor("enter"), r)

\* -------------------------------------------------- C23, C24: bindRegion

IsBind(class) == lastCall.op = "bindRegion" /\ lastCall.class = class

\* r is the first region of the recorded region list that is named n
FirstWithName(r, n) ==
    \E i \in 1..Len(lastCall.regionList) :
        /\ lastCall.regionList[i] = r
        /\ r.name = n
        /\ \A j \in 1..(i - 1) : lastCall.regionList[j].name # n

Resolved(f) ==
    \A k \in 1..Len(f.states) : \A i \in 1..Len(f.states[k].transitions) :
        LET t == f.states[k].transitions[i]
        IN  /\ t.target # 0
            /\ \/ t.onEvent.regionName = "*"
               \/ t.onEvent.evtType = "nevermatch"
               \/ t.onEvent.regionName = "" /\ t.onEvent.evtType \in {"release_none", "any"}
               \/ t.onEvent.region # NoRegion
            /\ \A j \in 1..Len(t.actions) :
                    t.actions[j].actType \in {"set_image", "clear_image"} =>
                        t.actions[j].onRegion # NoRegion

\* C21: once an FSM is live every transition has a resolved target, every event
\* specification that requires a region has one bound and every set_image or
\* clear_image action has a bound region, so that actOnEvent never finds itself
\* without a current state; a description with an unresolvable name yields no
\* live FSM.
C21_ResolvedAtBindTime ==
    /\ fsm # NoFSM => Resolved(fsm)
    /\ fsm # NoFSM /\ Len(fsm.states) > 0 => currentState # 0
    /\ lastCall.op = "FSM.fromJson" =>
        ((\E e \in lastCall.errors : e.why \in {"target", "event region", "action region"})
            => fsm = NoFSM)

\* C22: construction from a description with a duplicate region name, a duplicate
\* state name, a region or state list that is not an array, or an empty state
\* list returns no FSM; every FSM that exists has unique region names, unique state
\* names and at least one state.
C22_MalformedRejected ==
    /\ fsm # NoFSM =>
        /\ \A i, j \in 1..Len(fsm.regions) : fsm.regions[i].name = fsm.regions[j].name => i = j
        /\ \A i, j \in 1..Len(fsm.states) : fsm.states[i].name = fsm.states[j].name => i = j
        /\ Len(fsm.states) >= 1
    /\ lastCall.op = "FSM.fromJson" =>
        ((\E e \in lastCall.errors :
            e.why \in {"Duplicate region", "Duplicate state", "Region list is not an array",
                       "State list is not an array", "No states"})
            => fsm = NoFSM)

\* ------------------------------------ C25, C26: currentState and reset

\* The call recorded in c handed some event to actOnEvent, which took a transition
FiredIn(c) ==
    /\ c.op = "dispatchRawEvent"
    /\ \E k \in 1..Len(c.log) : c.log[k].fired # 0

\* C25, as stated: the currentState of an FSM is changed only by actOnEvent; no
\* call of pick, draw, damage, a position or parent setter, or reset changes it.
C25_OnlyActOnEvent ==
    [][fsm' = fsm /\ currentState' # currentState => FiredIn(lastCall')]_vars

\* C25: the currentState of an FSM is changed only by a transition taken in
\* actOnEvent and by reset, which makes it the start state; no call of pick, draw,
\* damage or of a position or parent setter changes it.
C25_OnlyActOnEventAndReset ==
    [][fsm' = fsm /\ currentState' # currentState =>
          \/ FiredIn(lastCall')
          \/ lastCall'.op = "reset" /\ currentState' = startState(fsm)]_vars

\* reset was called in another state than the start state, on an interactor that
\* has a parent, was moved and has a pick stored
C25_Witness ==
    /\ lastCall.op = "reset"
    /\ lastCall.before # currentState
    /\ parent # NoRoot
    /\ position # <<0, 0>>
    /\ lastPickedRegions # <<>>

\* C26: after any sequence of events reset() makes currentState the start state
\* (the first declared state) and leaves every region's image as it was; a second
\* reset right after the first changes nothing at all.
C26_Reset ==
    [][lastCall'.op = "reset" =>
          /\ currentState' = 1
          /\ imageLoc' = imageLoc
          /\ fsm' = fsm /\ lastPickedRegions' = lastPickedRegions
          /\ lastCall.op = "reset" =>
                /\ currentState' = currentState
                /\ lastCall'.before = currentState']_vars

\* reset is called in another state than the start state, after events changed
\* the image of a region
C26_Witness ==
    /\ lastCall.op = "reset"
    /\ lastCall.before \notin {0, 1}
    /\ currentState = 1
    /\ \E d \in 1..Len(Descs) :
            /\ fsm = FSM_new(Descs[d], 1)
            /\ imageLoc # InitialImages(Descs[d])

\* ----------------------------------------------------------- C29: draw

\* C29: draw visits the regions of the installed FSM once each in declared order
\* (the reverse of the order of pick), with the origin translated to the region's
\* position, and hands the caller's showDebugging flag unchanged to each region's
\* draw; with no FSM installed it draws nothing.
C29_DrawPassesFlag ==
    lastCall.op = "draw" =>
        IF fsm = NoFSM THEN lastCall.visited = <<>>
        ELSE /\ Len(lastCall.visited) = Len(fsm.regions)
             /\ \A i \in 1..Len(fsm.regions) :
                    /\ lastCall.visited[i].region = fsm.regions[i]
                    /\ lastCall.visited[i].translate = <<fsm.box[i].x, fsm.box[i].y>>
                    /\ lastCall.visited[i].showDebugging = lastCall.showDebugging

\* -------------------------------------------------- C27: Action.execute

\* C27: executing a set_image action sets the image of the action's bound region
\* to the action's param, executing clear_image sets it to empty, and executing
\* none, print or print_event changes no image; in every case no image but that of
\* the action's own bound region changes, and the FSM's currentState is untouched.
C27_ExecuteEffects ==
    [][lastCall'.op = "execute" =>
          LET a == lastCall'.action
          IN  /\ a.actType = "set_image" /\ a.onRegion # NoRegion =>
                    imageLoc'[a.onRegion.idx] = a.param
              /\ a.actType = "clear_image" /\ a.onRegion # NoRegion =>
                    imageLoc'[a.onRegion.idx] = ""
              /\ a.actType \in {"none", "print", "print_event"} => imageLoc' = imageLoc
              /\ DOMAIN imageLoc' = DOMAIN imageLoc
              /\ \A i \in DOMAIN imageLoc :
                    imageLoc'[i] # imageLoc[i] =>
                        a.onRegion # NoRegion /\ fsm.regions[i] = a.onRegion
              /\ currentState' = currentState
              /\ fsm' = fsm]_vars

\* A clear_image action was executed and emptied the image of its region
C27_Witness ==
    /\ lastCall.op = "execute"
    /\ lastCall.action.actType = "clear_image"
    /\ lastCall.images # imageLoc
    /\ imageLoc[lastCall.action.onRegion.idx] = ""

\* ------------------------------------------- C28: regions during a run

\* The delivered event c took a transition that has a set_image or clear_image
\* action on region i
ImageActionFired(c, i) ==
    /\ c.fired # 0
    /\ \E j \in 1..Len(fsm.states[c.before].transitions[c.fired].actions) :
        LET a == fsm.states[c.before].transitions[c.fired].actions[j]
        IN  a.actType \in {"set_image", "clear_image"} /\ a.onRegion = fsm.regions[i]

\* C28: over a run with one FSM the regions, their positions and their sizes
\* never change, and the image of a region changes only in a raw event that makes
\* actOnEvent take a transition with a set_image or clear_image action on that
\* region; a raw event that fires no transition leaves every image as it was.
C28_RegionsFixed ==
    [][/\ fsm' = fsm
       /\ DOMAIN imageLoc' = DOMAIN imageLoc
       /\ \A i \in DOMAIN imageLoc :
            imageLoc'[i] # imageLoc[i] =>
                /\ lastCall'.op = "dispatchRawEvent"
                /\ \E k \in 1..Len(lastCall'.log) : ImageActionFired(lastCall'.log[k], i)]_vars

\* A raw event delivered an event that fired no transition and one that fired a
\* transition and changed an image
C28_Witness ==
    /\ IsDispatch
    /\ \E k \in 1..Len(lastCall.log) : lastCall.log[k].fired = 0
    /\ \E k \in 1..Len(lastCall.log) :
            /\ lastCall.log[k].fired # 0
            /\ lastCall.log[k].imgAfter # lastCall.log[k].imgBefore
    /\ imageLoc # lastCall.log[1].imgBefore

\* ------------------------------------ C31: kind events and entered regions

\* C31: over any sequence of raw events with one FSM, a press, release or
\* move_inside event is delivered for a region only while the region is entered:
\* the region is among the entered regions when the raw event ends, and between
\* the event and the end of the raw event no enter or exit was delivered for it.
C31_KindWhileEntered ==
    IsDispatch =>
        \A k \in 1..Len(lastCall.log) :
            lastCall.log[k].evtType \in KindTypes =>
                /\ lastCall.log[k].region \in entered.regions
                /\ \A j \in (k + 1)..Len(lastCall.log) :
                        ~(/\ lastCall.log[j].evtType \in {"enter", "exit"}
                          /\ lastCall.log[j].region = lastCall.log[k].region)

\* A raw event delivers a kind event for a region entered by an earlier raw event
\* and one for a region entered by this raw event
C31_Witness ==
    /\ IsDispatch
    /\ \E k \in 1..Len(lastCall.log) :
            /\ lastCall.log[k].evtType \in KindTypes
            /\ Includes(lastCall.prevlist, lastCall.log[k].region)
    /\ \E k \in 1..Len(lastCall.log) :
            /\ lastCall.log[k].evtType \in KindTypes
            /\ Includes(DeliveredFor("enter"), lastCall.log[k].region)

\* ------------------------------- C32: regions of a replaced FSM

\* C32: every region dispatchRawEvent passes to actOnEvent is a region of the FSM
\* installed at the time of the call, over any interleaving of raw events and load
\* completions: once a load has replaced the FSM, no event is delivered for a
\* region object of the replaced FSM that the previous pick-set retained.
C32_RegionsOfInstalledFSM ==
    IsDispatch =>
        \A k \in 1..Len(lastCall.log) :
            \/ lastCall.log[k].region = NoRegion
            \/ Includes(fsm.regions, lastCall.log[k].region)

\* --------------------------------------- C33: raw events without an FSM

\* C33: dispatchRawEvent on an interactor with no FSM installed delivers no event
\* and changes nothing, the stored previous pick-set included; the pick-set is
\* changed by nothing but a dispatchRawEvent made while an FSM is installed, so
\* that after an interval without FSM it is the one the last such call stored.
C33_NoFsmNoOp ==
    [][/\ lastCall'.op = "dispatchRawEvent" /\ fsm = NoFSM =>
            /\ lastCall'.log = <<>>
            /\ ~lastCall'.hadFsm
            /\ UNCHANGED <<fsm, currentState, imageLoc, lastPickedRegions, hostVars, entered>>
       /\ lastPickedRegions' # lastPickedRegions =>
            /\ lastCall'.op = "dispatchRawEvent"
            /\ fsm # NoFSM]_vars

\* A raw event arrives after a failed load has cleared the FSM, with a pick-set
\* stored before
C33_Witness ==
    /\ lastCall.op = "dispatchRawEvent"
    /\ ~lastCall.hadFsm
    /\ fsm = NoFSM
    /\ lastPickedRegions # <<>>

\* --------------------------------- C34: the events of one raw sample

\* The events of the last call that took a transition
FiredAt == {k \in 1..Len(lastCall.log) : lastCall.log[k].fired # 0}

\* C34: the events of one raw sample are handed to actOnEvent one after another,
\* each matched against the transitions of the state the preceding event of the
\* sample left (the first transition of that state that matches it is the one
\* taken), and the state the last one leaves is the FSM's state after the call;
\* the number of transitions fired by one call is at most the number of events.
C34_EventsChained ==
    IsDispatch =>
        /\ \A k \in 1..Len(lastCall.log) :
            LET c == lastCall.log[k]
            IN  /\ k > 1 => c.before = lastCall.log[k - 1].after
                /\ c.before # 0 =>
                    LET ts == fsm.states[c.before].transitions
                        hits == {i \in 1..Len(ts) : Transition_match(ts[i], c.evtType, c.region)}
                    IN  /\ (c.fired = 0) <=> (hits = {})
                        /\ c.fired # 0 =>
                            /\ c.fired \in hits
                            /\ \A i \in hits : c.fired <= i
                            /\ c.after = ts[c.fired].target
                        /\ c.fired = 0 => c.after = c.before
        /\ Len(lastCall.log) > 0 => currentState = lastCall.log[Len(lastCall.log)].after
        /\ Cardinality(FiredAt) <= Len(lastCall.log)

\* One raw sample fired two transitions, the second one from the state the first
\* one led to, which is not the state the sample found
C34_Witness ==
    /\ IsDispatch
    /\ \E j, k \in FiredAt :
            /\ j < k
            /\ lastCall.log[k].before = lastCall.log[j].after
            /\ lastCall.log[k].before # lastCall.log[1].before

\* ------------------------------------ C35: currentState is a declared state

\* C35: for every live FSM, in every reachable state, currentState is defined and
\* is one of the FSM's declared states; right after construction it is the first
\* declared state.
C35_CurrentStateDeclared ==
    fsm # NoFSM =>
        /\ currentState \in 1..Len(fsm.states)
        /\ lastCall.op \in {"constructor", "FSM.fromJson"} => currentState = 1

\* ------------------------------------------- C36: the number of events

\* C36: the number of events one dispatchRawEvent delivers is the number of
\* exited regions plus the number of entered regions plus the number of picked
\* regions, plus one when the kind is release and no region is picked. A move
\* or press at a point no region covers, with an empty previous pick-set,
\* delivers nothing; a sample that stays within the same regions delivers one kind
\* event per picked region and no enter or exit.
C36_EventCount ==
    IsDispatch =>
        LET current == Range(CurrentPick)
            previous == Range(lastCall.prevlist)
        IN  /\ Len(lastCall.log) =
                    Cardinality(previous \ current) + Cardinality(current \ previous)
                    + Cardinality(current)
                    + (IF lastCall.what = "release" /\ current = {} THEN 1 ELSE 0)
            /\ lastCall.what \in {"move", "press"} /\ current = {} /\ previous = {} =>
                    lastCall.log = <<>>
            /\ current = previous =>
                    /\ DeliveredFor("enter") = <<>>
                    /\ DeliveredFor("exit") = <<>>
                    /\ DeliveredFor(KindType(lastCall.what)) = CurrentPick

\* A release at a point no region covers, after a sample inside two regions or
\* more: the exits and release_none are all that is delivered
C36_Witness ==
    /\ IsDispatch
    /\ lastCall.what = "release"
    /\ CurrentPick = <<>>
    /\ Len(lastCall.prevlist) >= 2
    /\ Len(lastCall.log) = Len(lastCall.prevlist) + 1

\* ------------------------------------------- C37: overlapping loads

\* The call that has just completed overlapped a call started after it, which
\* completed before it
OverlappedOne ==
    /\ Completed
    /\ \E j \in (lastCall.id + 1)..started : j \notin PendingIds(pending)

\* C37: when two calls of startLoadFromJson overlap, the FSM reference after both
\* have completed is the result of the one that completed last, whichever started
\* first: its FSM if it succeeded, and no FSM if it failed.
C37_LastCompletionDecides ==
    OverlappedOne =>
        IF lastCall.outcome = "installed"
        THEN fsm # NoFSM /\ fsm.gen = lastCall.id + 1
        ELSE fsm = NoFSM

\* ------------------------------------- C38: reset and the previous pick-set

\* C38: reset() leaves the interactor's previous pick-set as it is, so the raw
\* event that follows a reset delivers no enter event for a region the pointer was
\* already over, only the kind events of the regions at the point: no transition
\* of the start state fires on enter of such a region in that raw event.
C38_ResetKeepsPickSet ==
    [][/\ lastCall'.op = "reset" => lastPickedRegions' = lastPickedRegions
       /\ lastCall.op = "reset" /\ lastCall'.op = "dispatchRawEvent" =>
            /\ \A k \in 1..Len(lastCall'.log) :
                    lastCall'.log[k].evtType = "enter" =>
                        /\ ~Includes(lastPickedRegions, lastCall'.log[k].region)
                        /\ Includes(lastPickedRegions', lastCall'.log[k].region)
            /\ RegionsFor(lastCall', KindType(lastCall'.what)) = lastPickedRegions'
            /\ lastCall'.prevlist = lastPickedRegions]_vars

\* reset was called away from the start state while the pointer was over a
\* region on whose enter a transition of the start state fires
C38_Witness ==
    /\ lastCall.op = "reset"
    /\ lastCall.before # currentState
    /\ \E i \in 1..Len(fsm.states[currentState].transitions) :
            /\ fsm.states[currentState].transitions[i].onEvent.evtType = "enter"
            /\ Includes(lastPickedRegions, fsm.states[currentState].transitions[i].onEvent.region)

\* ------------------------------------- C39: any and the wildcard name

\* The recorded event is one the interactor delivers: release_none without a
\* region, or an event of another type with a region
DeliveredKind ==
    \/ lastCall.evtType = "release_none" /\ lastCall.regn = NoRegion
    \/ /\ lastCall.evtType \in {"press", "release", "enter", "exit", "move_inside"}
       /\ lastCall.regn # NoRegion

\* C39: an EventSpec of type any with the region name "*" matches every event the
\* interactor delivers, release_none without a region included; one of type any
\* with the empty region name, left unbound, matches the events that carry no
\* region and no other; a spec of type press, release, enter, exit or move_inside
\* with the region name "*" matches the events of its type, on every region, and
\* no event of another type, release_none in particular.
C39_AnyAndWildcard ==
    IsMatch =>
        /\ lastCall.spec.evtType = "any" /\ lastCall.spec.regionName = "*" /\ DeliveredKind =>
                lastCall.out
        /\ (/\ lastCall.spec.evtType = "any"
            /\ lastCall.spec.regionName = ""
            /\ lastCall.spec.region = NoRegion) =>
                lastCall.out = (lastCall.regn = NoRegion)
        /\ (/\ lastCall.spec.evtType \in {"press", "release", "enter", "exit", "move_inside"}
            /\ lastCall.spec.regionName = "*") =>
                lastCall.out = (lastCall.evtType = lastCall.spec.evtType)

\* A spec of type any with the wildcard name was asked about release_none without
\* a region, and matched
C39_Witness ==
    /\ IsMatch
    /\ lastCall.spec.evtType = "any" /\ lastCall.spec.regionName = "*"
    /\ lastCall.evtType = "release_none" /\ lastCall.regn = NoRegion
    /\ lastCall.out

\* ------------------------------------------------- C40: the setters

\* What the setter of parent does when the value differs: the calls on the old
\* parent old, if there was one, then those on the new parent v, if there is one
ParentCalls(old, v) ==
    (IF old # NoRoot
     THEN <<[root |-> old, call |-> "removeChild"], [root |-> old, call |-> "damage"]>>
     ELSE <<>>)
    \o
    (IF v # NoRoot
     THEN <<[root |-> v, call |-> "addChild"], [root |-> v, call |-> "damage"]>>
     ELSE <<>>)

\* The step is a call of the setter of parent that does as C40 says
ParentSet(c) ==
    c.op = "set parent" =>
        /\ parent' = c.v
        /\ c.steps = (IF parent = c.v THEN <<>> ELSE ParentCalls(parent, c.v))

\* The position a call c of the setter of x, y or position asks for
Asked(c) ==
    CASE c.op = "set x" -> <<c.v, position[2]>>
      [] c.op = "set y" -> <<position[1], c.v>>
      [] c.op = "set position" -> c.v

\* C40, as stated: setting the parent to another value removes the interactor
\* from the old parent, if any, and notifies damage to it, then records the new
\* parent, adds the interactor to it, if any, and notifies damage to it, in that
\* order; setting the parent, x, y or position to the current value makes no call
\* to the parent; setting x, y or position to another value stores it and sends
\* exactly one damage notification.
C40_SettersNotifyOnce ==
    [][/\ ParentSet(lastCall')
       /\ lastCall'.op \in {"set x", "set y", "set position"} =>
            /\ position' = Asked(lastCall')
            /\ lastCall'.steps =
                    (IF Asked(lastCall') = position THEN <<>> ELSE <<"damage">>)
            /\ parent' = parent]_vars

\* C40: as above, except that setting x, y or position to another value stores it
\* and sends one damage notification to the parent if there is a parent, and
\* none if there is not.
C40_SettersNotifyParent ==
    [][/\ ParentSet(lastCall')
       /\ lastCall'.op \in {"set x", "set y", "set position"} =>
            /\ position' = Asked(lastCall')
            /\ lastCall'.steps =
                    (IF Asked(lastCall') = position \/ parent = NoRoot THEN <<>>
                     ELSE <<"damage">>)
            /\ parent' = parent]_vars

\* The parent was changed from one Root object to another, on an interactor whose
\* position had been changed
C40_Witness ==
    /\ lastCall.op = "set parent"
    /\ lastCall.before # NoRoot /\ lastCall.v # NoRoot /\ lastCall.before # lastCall.v
    /\ Len(lastCall.steps) = 4
    /\ position # <<0, 0>>

=============================================================================
